---- MODULE Spec2Model ----
(***************************************************************************)
(* Model of ros/src/tools/autoTLDataCollector.py: the traffic-light data   *)
(* collector node.  One action per rospy callback (pose_cb, traffic_cb,    *)
(* waypoints_cb, image_cb) and one for a single iteration of loop().       *)
(*                                                                         *)
(* Conventions                                                             *)
(*   - A Python value that may be None is an option: None is <<>> and a    *)
(*     present value v is <<v>>.                                           *)
(*   - Indexes are 0-based as in the source; a.waypoints[i] is At(w, i).   *)
(*   - Coordinates are integers.  Distances are compared through their     *)
(*     squares (sqrt is monotone) and summed through Sqrt, which is exact  *)
(*     on the tracks used here (every segment has an integer length).      *)
(*     A square is kept as <<m, r>>, standing for m * 10^6 + r, because    *)
(*     the squares of distances near 100000 exceed the integer range.      *)
(*   - pose.orientation is a quaternion with integer components that       *)
(*     describes a rotation about z by a multiple of 90 degrees; theta is  *)
(*     kept as that multiple (theta = k stands for k * pi/2).              *)
(***************************************************************************)
EXTENDS Integers, Sequences, FiniteSets, TLC

VARIABLES
    config,                          \* self.config['light_positions']
    waypoints,                       \* self.waypoints        (option of a sequence)
    sub_waypoints,                   \* self.sub_waypoints    (option)
    traffic_light_to_waypoint_map,   \* self.traffic_light_to_waypoint_map
    pose,                            \* self.pose             (option)
    theta,                           \* self.theta            (option)
    lights,                          \* self.lights
    camera_sub,                      \* self.camera_sub       (option)
    nwp,                             \* self.nwp              (option)
    ctl,                             \* self.ctl              (option)
    i,                               \* self.i, the frame counter
    log,                             \* rows written to self.log_file after the header
    log_file,                        \* self.log_file: is it open, how many rows are flushed
    pc,                              \* "running", "crashed" (loop raised), "shutdown"
    last,                            \* what the handler that ran last did
    since,                           \* rows written since the last tick and the last enable
    thread,                          \* where a callback that runs on its own thread stands
    trace                            \* what a scripted run has observed, oldest first

prog == <<config, waypoints, sub_waypoints, traffic_light_to_waypoint_map, pose,
          theta, lights, camera_sub, nwp, ctl, i, log, log_file, pc>>

vars == <<config, waypoints, sub_waypoints, traffic_light_to_waypoint_map, pose,
          theta, lights, camera_sub, nwp, ctl, i, log, log_file, pc, last, since,
          thread, trace>>

----------------------------------------------------------------------------
(* Options and small helpers                                               *)

None == <<>>

Some(v) == <<v>>

Val(o) == o[1]

At(s, k) == s[k + 1]

Abs(n) == IF n < 0 THEN -n ELSE n

RECURSIVE SqrtIn(_, _, _)
SqrtIn(n, lo, hi) ==
    IF lo >= hi THEN lo
    ELSE LET mid == (lo + hi + 1) \div 2
         IN  IF mid * mid <= n THEN SqrtIn(n, mid, hi) ELSE SqrtIn(n, lo, mid - 1)

\* d * d as <<m, r>> = m * 10^6 + r with 0 <= r < 10^6, for |d| < 10^6
Sq(d) ==
    LET a   == Abs(d) \div 1000
        b   == Abs(d) % 1000
        low == 2 * a * b * 1000 + b * b
    IN  <<a * a + low \div 1000000, low % 1000000>>

Plus(u, v) ==
    LET r == u[2] + v[2]
    IN  <<u[1] + v[1] + r \div 1000000, r % 1000000>>

Less(u, v) == u[1] < v[1] \/ (u[1] = v[1] /\ u[2] < v[2])

\* math.sqrt of a square below 46340 * 46340: exact when the root is an
\* integer (the floor of the root otherwise)
Sqrt(v) == SqrtIn(v[1] * 1000000 + v[2], 0, 46340)

----------------------------------------------------------------------------
(* Bounds and inputs                                                       *)

\* ImageCb is taken only while fewer than MaxFrames rows have been written
MaxFrames == 2

\* the scripted run stops after MaxTicks ticks
MaxTicks == 6

\* the longest light-to-waypoint map given to getNextLightWaypoint alone
MaxLights == 3

\* the longest path given to nextWaypoint and to distance alone
MaxTrackLen == 3

\* the capture window boundary of loop()
ENTER_THRESHOLD == 80

\* initial value of the running minimum in both nearest-point scans
FAR == 100000

P(x, y, z) == [x |-> x, y |-> y, z |-> z]

Q(x, y, z, w) == [x |-> x, y |-> y, z |-> z, w |-> w]

\* a straight track; the distances from its waypoints to the last one are
\* 95, 90, 85, 80, 78, 72, 0
TrackA == << P(0,0,0), P(5,0,0), P(10,0,0), P(15,0,0), P(17,0,0), P(23,0,0), P(95,0,0) >>

\* a short climbing track with a corner (segments of length 50 and 30)
TrackB == << P(0,0,0), P(30,40,0), P(30,40,30) >>

WaypointMsgs == { <<>>, TrackA, TrackB }

\* light positions (x, y)
LightConfigs == { <<>>, << <<95, 0>> >>, << <<16, 0>>, <<95, 0>> >> }

\* a pose at (x, 0, 0) with orientation q
PoseAt(x, q) == [position |-> P(x, 0, 0), orientation |-> q]

\* facing +x (yaw 0) and facing -x (yaw pi)
East == Q(0,0,0,1)

West == Q(0,0,1,0)

\* on TrackA the distance to the light at x = 95 is 90, 80, 72 (the nearest
\* waypoint lies behind a vehicle facing -x, so the next one is taken) and
\* absent
PoseMsgs == { PoseAt(5, East), PoseAt(15, East), PoseAt(17, West), PoseAt(95, East) }

\* TrafficLight.RED = 0, TrafficLight.GREEN = 2
LightMsgs == { <<>>, <<2, 0>> }

----------------------------------------------------------------------------
(* Geometry                                                                *)

\* the square of dl(a, b) of nextWaypoint and distance: 3D
dsq3(a, b) == Plus(Plus(Sq(a.x - b.x), Sq(a.y - b.y)), Sq(a.z - b.z))

\* the square of dl(a, b) of initializeLightToWaypointMap: 2D, b = (x, y)
dsq2(a, b) == Plus(Sq(a.x - b[1]), Sq(a.y - b[2]))

\* the initial value of the running minimum of a scan, `dist = 100000.`,
\* squared
NoMin == Sq(FAR)

\* `dist > d1`, on squares
Closer(dist, d1sq) == Less(d1sq, dist)

\* the scan of nextWaypoint, from index k with running minimum dist at best
RECURSIVE nearest3(_, _, _, _, _)
nearest3(w, location, k, dist, best) ==
    IF k >= Len(w) THEN best
    ELSE LET d1 == dsq3(location, At(w, k))
         IN  IF Closer(dist, d1) THEN nearest3(w, location, k + 1, d1, k)
                                 ELSE nearest3(w, location, k + 1, dist, best)

\* the scan of initializeLightToWaypointMap for one light
RECURSIVE nearest2(_, _, _, _, _)
nearest2(w, light, k, dist, best) ==
    IF k >= Len(w) THEN best
    ELSE LET d1 == dsq2(At(w, k), light)
         IN  IF Closer(dist, d1) THEN nearest2(w, light, k + 1, d1, k)
                                 ELSE nearest2(w, light, k + 1, dist, best)

\* euler_from_quaternion(...)[2] in quarter turns, for a rotation about z:
\* yaw = atan2(2(xy + zw), ww + xx - yy - zz); the zero quaternion is the
\* identity rotation
Yaw(q) ==
    LET s == 2 * (q.x * q.y + q.z * q.w)
        c == q.w * q.w + q.x * q.x - q.y * q.y - q.z * q.z
    IN  IF s = 0 THEN (IF c < 0 THEN 2 ELSE 0)
        ELSE IF s > 0 THEN 1 ELSE -1

\* np.abs(theta - np.arctan2(dy, dx)) > np.pi/4 for theta = th quarter turns.
\* The difference is not normalised: arctan2 lies in [-pi, pi].
AngleExceeds(th, dy, dx) ==
    CASE th = 0  -> ~((dx > 0 /\ Abs(dy) <= dx) \/ (dx = 0 /\ dy = 0))
      [] th = 1  -> ~(dy > 0 /\ Abs(dx) <= dy)
      [] th = 2  -> ~(dx < 0 /\ dy >= 0 /\ dy <= -dx)
      [] OTHER   -> ~(dy < 0 /\ Abs(dx) <= -dy)

\* nextWaypoint raises: len(None) is a TypeError, and on an empty list
\* self.waypoints[0] is an IndexError
nextWaypointRaises == waypoints = None \/ Len(Val(waypoints)) = 0

nextWaypoint(p) ==
    LET w         == Val(waypoints)
        location  == p.position
        ahead(n)  == LET x == At(w, n).x
                         y == At(w, n).y
                     IN  IF AngleExceeds(Val(theta), y - location.y, x - location.x)
                         THEN (IF n + 1 >= Len(w) THEN 0 ELSE n + 1)
                         ELSE n
    IN  ahead(nearest3(w, location, 0, NoMin, 0))

\* the loop without `and tlwp is None`: the last light ahead wins
RECURSIVE lightScan_last(_, _, _, _, _)
lightScan_last(m, cur, k, tlwp, c) ==
    IF k >= Len(m) THEN <<tlwp, c>>
    ELSE IF cur < At(m, k)
         THEN lightScan_last(m, cur, k + 1, Some(At(m, k)), Some(k))
         ELSE lightScan_last(m, cur, k + 1, tlwp, c)

\* the loop of getNextLightWaypoint from ordinal k: <<tlwp, ctl>>
RECURSIVE lightScan(_, _, _, _, _)
lightScan(m, cur, k, tlwp, c) ==
    IF k >= Len(m) THEN <<tlwp, c>>
    ELSE IF cur < At(m, k) /\ tlwp = None
         THEN lightScan(m, cur, k + 1, Some(At(m, k)), Some(k))
         ELSE lightScan(m, cur, k + 1, tlwp, c)

\* the result and the two assignments of getNextLightWaypoint
getNextLightWaypoint ==
    LET found(n, r) == [tlwp |-> r[1], nwp |-> Some(n), ctl |-> r[2]]
        scan(n)     == found(n, lightScan(traffic_light_to_waypoint_map, n, 0, None, ctl))
    IN  scan(nextWaypoint(Val(pose)))

\* the loop without `wp1 = i`: every waypoint is measured from the first
RECURSIVE distanceFrom_fixed(_, _, _, _)
distanceFrom_fixed(w, wp1, k, wp2) ==
    IF k > wp2 THEN 0
    ELSE Sqrt(dsq3(At(w, wp1), At(w, k))) + distanceFrom_fixed(w, wp1, k + 1, wp2)

\* the loop of distance from index k, wp1 being the previous index
RECURSIVE distanceFrom(_, _, _, _)
distanceFrom(w, wp1, k, wp2) ==
    IF k > wp2 THEN 0
    ELSE Sqrt(dsq3(At(w, wp1), At(w, k))) + distanceFrom(w, k, k + 1, wp2)

distance(w, wp1, wp2) == distanceFrom(w, wp1, wp1, wp2)

\* `dist = 0` for `dist = None`: no light ahead reads as a light right here
dist_to_next_traffic_light_zero ==
    LET to(g) == [dist |-> IF g.tlwp # None
                           THEN Some(distance(Val(waypoints), Val(g.nwp), Val(g.tlwp)))
                           ELSE Some(0),
                  nwp  |-> g.nwp,
                  ctl  |-> g.ctl]
    IN  to(getNextLightWaypoint)

\* the result of dist_to_next_traffic_light with the values it leaves in
\* self.nwp and self.ctl
dist_to_next_traffic_light ==
    LET to(g) == [dist |-> IF g.tlwp # None
                           THEN Some(distance(Val(waypoints), Val(g.nwp), Val(g.tlwp)))
                           ELSE None,
                  nwp  |-> g.nwp,
                  ctl  |-> g.ctl]
    IN  to(getNextLightWaypoint)

\* one pass of initializeLightToWaypointMap: the entries appended for the
\* lights from ordinal k on
RECURSIVE lightEntries(_, _, _)
lightEntries(cfg, w, k) ==
    IF k >= Len(cfg) THEN <<>>
    ELSE <<nearest2(w, At(cfg, k), 0, NoMin, 0)>> \o lightEntries(cfg, w, k + 1)

initializeLightToWaypointMap(w) ==
    traffic_light_to_waypoint_map \o lightEntries(config, w, 0)

----------------------------------------------------------------------------
(* Handlers                                                                *)

\* the record of one handler execution: whether it queried the distance,
\* whether the query raised, the distance it got, the signal it sent to the
\* camera feed ("enable" = rospy.Subscriber, "disable" = unregister) and
\* the rows it wrote
Event(op, arg, queried, raised, dist, sig, rows) ==
    [op |-> op, arg |-> arg, queried |-> queried, raised |-> raised,
     dist |-> dist, sig |-> sig, rows |-> rows]

Quiet(op, arg) == Event(op, arg, FALSE, FALSE, None, "none", <<>>)

pose_cb(msg) ==
    /\ pose' = Some(msg)
    /\ theta' = Some(Yaw(msg.orientation))
    /\ last' = Quiet("pose", <<>>)
    /\ UNCHANGED <<config, waypoints, sub_waypoints, traffic_light_to_waypoint_map,
                   lights, camera_sub, nwp, ctl, i, log,
                   log_file, pc>>

traffic_cb(msg) ==
    /\ lights' = msg
    /\ last' = Quiet("traffic", <<>>)
    /\ UNCHANGED <<config, waypoints, sub_waypoints, traffic_light_to_waypoint_map,
                   pose, theta, camera_sub, nwp, ctl, i, log,
                   log_file, pc>>

\* the guard left out: every delivery is taken
WaypointsWanted_always == TRUE

\* `if self.waypoints is None`
WaypointsWanted == waypoints = None

waypoints_cb(msg) ==
    /\ IF WaypointsWanted
       THEN /\ waypoints' = Some(msg)
            /\ sub_waypoints' = None
            /\ traffic_light_to_waypoint_map' = initializeLightToWaypointMap(msg)
       ELSE UNCHANGED <<waypoints, sub_waypoints, traffic_light_to_waypoint_map>>
    /\ last' = Quiet("waypoints", msg)
    /\ UNCHANGED <<config, pose, theta, lights, camera_sub, nwp, ctl, i, log,
                   log_file, pc>>

\* the state test left out: every tick takes the enter branch
IdleAtTick_always == TRUE

\* `if self.camera_sub is None` of loop
IdleAtTick == camera_sub = None

\* the None test left out: an absent distance also enters the window
EnterCond_absent(d) == d = None \/ Val(d) < ENTER_THRESHOLD

\* `<=` for `<`
EnterCond_le(d) == d # None /\ Val(d) <= ENTER_THRESHOLD

\* `tl_dist is not None and tl_dist < 80.`
EnterCond(d) == d # None /\ Val(d) < ENTER_THRESHOLD

\* `>=` for `>`
ExitCond_ge(d) == d # None /\ Val(d) >= ENTER_THRESHOLD

\* the None test left out: an absent distance also leaves the window
ExitCond_absent(d) == d = None \/ Val(d) > ENTER_THRESHOLD

\* `<` for `>`
ExitCond_lt(d) == d # None /\ Val(d) < ENTER_THRESHOLD

\* `tl_dist is not None and tl_dist > 80`
ExitCond(d) == d # None /\ Val(d) > ENTER_THRESHOLD

\* one iteration of `while not rospy.is_shutdown()`; an exception of the
\* distance query leaves loop() and ends the process
loop ==
    IF theta = None
    THEN /\ last' = Quiet("tick", <<>>)
         /\ UNCHANGED prog
    ELSE IF nextWaypointRaises
    THEN /\ pc' = "crashed"
         /\ last' = Event("tick", <<>>, TRUE, TRUE, None, "none", <<>>)
         /\ UNCHANGED <<config, waypoints, sub_waypoints, traffic_light_to_waypoint_map,
                        pose, theta, lights, camera_sub, nwp, ctl, i, log,
                   log_file>>
    ELSE \E r \in {dist_to_next_traffic_light} :
           LET tl_dist == r.dist
               sig == IF IdleAtTick
                      THEN (IF EnterCond(tl_dist) THEN "enable" ELSE "none")
                      ELSE (IF ExitCond(tl_dist) /\ camera_sub # None THEN "disable" ELSE "none")
           IN  /\ nwp' = r.nwp
               /\ ctl' = r.ctl
               /\ camera_sub' = CASE sig = "enable"  -> Some("Subscriber")
                                  [] sig = "disable" -> None
                                  [] OTHER           -> camera_sub
               /\ last' = Event("tick", <<>>, TRUE, FALSE, tl_dist, sig, <<>>)
               /\ UNCHANGED <<config, waypoints, sub_waypoints,
                              traffic_light_to_waypoint_map, pose, theta, lights, i, log,
                              log_file, pc>>

\* self.jpgout % self.i
ImageName(n) == <<"session_", n, ".jpg">>

\* the label taken from the last entry of the list for the first
LogRow_lastLight ==
    [pose |-> Val(pose), image |-> ImageName(i), label |-> At(lights, Len(lights) - 1)]

\* the row of log_writer.writerow
LogRow ==
    [pose |-> Val(pose), image |-> ImageName(i), label |-> At(lights, 0)]

\* `if len(self.lights) > 0` and `if self.pose is not None and self.ctl is not None`
Writes == Len(lights) > 0 /\ pose # None /\ ctl # None

\* the increment left out
NextFrame_same(n) == n

\* `self.i += 1`
NextFrame(n) == n + 1

\* `self.log_file.flush()`: the n rows written so far are on disk
Flush(f, n) == [f EXCEPT !.flushed = n]

\* the subscription kept after a frame
AfterFrame_keep(sub) == sub

\* what `self.camera_sub.unregister(); self.camera_sub = None` leaves in
\* self.camera_sub
AfterFrame(sub) == None

\* an exception of the distance query inside a callback is caught and
\* logged by rospy: the callback ends there
image_cb ==
    LET sig     == IF camera_sub # None THEN "disable" ELSE "none"
        rows    == IF Writes THEN <<LogRow>> ELSE <<>>
        queries == Len(lights) > 0 /\ ctl # None
        raises  == queries /\ nextWaypointRaises
        r       == dist_to_next_traffic_light
    IN  /\ camera_sub' = (IF camera_sub # None THEN AfterFrame(camera_sub) ELSE camera_sub)
        /\ log' = log \o rows
        /\ i' = (IF rows # <<>> THEN NextFrame(i) ELSE i)
        /\ log_file' = (IF rows # <<>> THEN Flush(log_file, Len(log')) ELSE log_file)
        /\ IF queries /\ ~raises
           THEN nwp' = r.nwp /\ ctl' = r.ctl
           ELSE UNCHANGED <<nwp, ctl>>
        /\ last' = Event("image", <<>>, queries, raises,
                         IF queries /\ ~raises THEN r.dist ELSE None, sig, rows)
        /\ UNCHANGED <<config, waypoints, sub_waypoints, traffic_light_to_waypoint_map,
                       pose, theta, lights, pc>>

\* rospy.is_shutdown() becomes true: loop() returns
shutdown ==
    /\ pc' = "shutdown"
    /\ last' = Quiet("shutdown", <<>>)
    /\ UNCHANGED <<config, waypoints, sub_waypoints, traffic_light_to_waypoint_map,
                   pose, theta, lights, camera_sub, nwp, ctl, i, log,
                   log_file>>

----------------------------------------------------------------------------
(* The node: callbacks and ticks in any order, each run to completion      *)

\* no row has been written and no enable signal sent
NoRows == [tick |-> 0, enable |-> 0, armed |-> None]

\* every callback runs to completion
NoThread == [pc |-> "idle"]

\* the rows written since the last tick and since the last enable signal,
\* and the distance of the last enable signal while no disable signal has
\* followed it, after a step that has left its record in last'
Counted ==
    [tick   |-> IF last'.op = "tick" THEN 0 ELSE since.tick + Len(last'.rows),
     enable |-> IF last'.sig = "enable" THEN 0 ELSE since.enable + Len(last'.rows),
     armed  |-> CASE last'.sig = "enable"  -> last'.dist
                  [] last'.sig = "disable" -> None
                  [] OTHER                 -> since.armed]

Init ==
    /\ config \in LightConfigs
    /\ waypoints = None
    /\ sub_waypoints = Some("Subscriber")
    /\ traffic_light_to_waypoint_map = <<>>
    /\ pose = None
    /\ theta = None
    /\ lights = <<>>
    /\ camera_sub = None
    /\ nwp = None
    /\ ctl = None
    /\ i = 0
    /\ log = <<>>
    /\ log_file = [open |-> TRUE, flushed |-> 0]
    /\ pc = "running"
    /\ last = Quiet("init", <<>>)
    /\ since = NoRows
    /\ thread = NoThread
    /\ trace = <<>>

PoseCb ==
    pc = "running" /\ \E msg \in PoseMsgs : pose_cb(msg) /\ UNCHANGED <<since, thread, trace>>

TrafficCb ==
    pc = "running" /\ \E msg \in LightMsgs : traffic_cb(msg) /\ UNCHANGED <<since, thread, trace>>

WaypointsCb ==
    pc = "running" /\ \E msg \in WaypointMsgs : waypoints_cb(msg) /\ UNCHANGED <<since, thread, trace>>

Tick == pc = "running" /\ loop /\ since' = Counted /\ UNCHANGED <<thread, trace>>

\* the camera feed delivers a frame only to a registered subscriber
ImageCb ==
    /\ pc = "running"
    /\ camera_sub # None
    /\ i < MaxFrames
    /\ image_cb
    /\ since' = Counted
    /\ UNCHANGED <<thread, trace>>

Shutdown == pc = "running" /\ shutdown /\ UNCHANGED <<since, thread, trace>>

Next == PoseCb \/ TrafficCb \/ WaypointsCb \/ Tick \/ ImageCb \/ Shutdown

Spec == Init /\ [][Next]_vars

----------------------------------------------------------------------------
(* A scripted run: the path and one light are loaded, and every tick is    *)
(* preceded by one pose update; no frame is delivered                      *)

\* on TrackA the distance to the light at x = 95 is 95, 90, 85, 78, 72
ScenPoses == { PoseAt(x, East) : x \in {0, 5, 10, 17, 23} }

ScenInit ==
    /\ config = << <<95, 0>> >>
    /\ waypoints = Some(TrackA)
    /\ sub_waypoints = None
    /\ traffic_light_to_waypoint_map = lightEntries(<< <<95, 0>> >>, TrackA, 0)
    /\ pose = None
    /\ theta = None
    /\ lights = <<>>
    /\ camera_sub = None
    /\ nwp = None
    /\ ctl = None
    /\ i = 0
    /\ log = <<>>
    /\ log_file = [open |-> TRUE, flushed |-> 0]
    /\ pc = "running"
    /\ last = Quiet("waypoints", TrackA)
    /\ since = NoRows
    /\ thread = NoThread
    /\ trace = <<>>

ScenPose ==
    /\ pc = "running"
    /\ last.op # "pose"
    /\ Len(trace) < MaxTicks
    /\ \E msg \in ScenPoses : pose_cb(msg)
    /\ UNCHANGED <<since, thread, trace>>

ScenTick ==
    /\ pc = "running"
    /\ last.op = "pose"
    /\ loop
    /\ trace' = Append(trace, [dist |-> last'.dist, sig |-> last'.sig,
                               active |-> camera_sub' # None])
    /\ UNCHANGED <<since, thread>>

ScenNext == ScenPose \/ ScenTick

SpecScenario == ScenInit /\ [][ScenNext]_vars

----------------------------------------------------------------------------
(* getNextLightWaypoint alone: one call on a loaded path, for any map and  *)
(* any remembered ordinal                                                  *)

\* at the waypoints of TrackA and facing +x, nextWaypoint is 0 .. 6
QueryPoses == { PoseAt(x, East) : x \in {0, 5, 10, 15, 17, 23, 95} }

\* maps of up to MaxLights entries
LightMaps == UNION { [1..n -> {0, 2, 3, 6}] : n \in 0..MaxLights }

Ordinals == {None} \cup { Some(k) : k \in 0..(MaxLights - 1) }

LightsInit ==
    /\ config = <<>>
    /\ waypoints = Some(TrackA)
    /\ sub_waypoints = None
    /\ traffic_light_to_waypoint_map \in LightMaps
    /\ \E msg \in QueryPoses : pose = Some(msg) /\ theta = Some(Yaw(msg.orientation))
    /\ lights = <<>>
    /\ camera_sub = None
    /\ nwp = None
    /\ ctl \in Ordinals
    /\ i = 0
    /\ log = <<>>
    /\ log_file = [open |-> TRUE, flushed |-> 0]
    /\ pc = "running"
    /\ last = Quiet("pose", <<>>)
    /\ since = NoRows
    /\ thread = NoThread
    /\ trace = <<>>

\* `tlwp = self.getNextLightWaypoint()`
QueryLight ==
    /\ trace = <<>>
    /\ LET g == getNextLightWaypoint
       IN  /\ nwp' = g.nwp
           /\ ctl' = g.ctl
           /\ trace' = <<[tlwp |-> g.tlwp, ctl |-> ctl]>>
    /\ last' = Quiet("getNextLightWaypoint", <<>>)
    /\ UNCHANGED <<config, waypoints, sub_waypoints, traffic_light_to_waypoint_map, pose,
                   theta, lights, camera_sub, i, log, log_file, pc, since, thread>>

SpecLights == LightsInit /\ [][QueryLight]_vars

----------------------------------------------------------------------------
(* nextWaypoint alone: one call, for any path and any pose                 *)

\* four points at integer distances from one another (5, 10, 12, 13)
Points == { P(0,0,0), P(3,4,0), P(6,8,0), P(3,4,12) }

\* the paths of up to MaxTrackLen waypoints through these points
Tracks == UNION { [1..n -> Points] : n \in 1..MaxTrackLen }

\* a path that lies some 200 km away from the origin
TrackFar == << P(200010,0,0), P(200000,0,0) >>

North == Q(0,0,1,1)

South == Q(0,0,-1,1)

NearestPoses ==
    [position : { P(0,0,0), P(1,0,0), P(3,4,0), P(6,8,0) },
     orientation : { East, North, West, South }]

NearestInit ==
    /\ config = <<>>
    /\ waypoints \in { Some(w) : w \in Tracks \cup {TrackFar} }
    /\ sub_waypoints = None
    /\ traffic_light_to_waypoint_map = <<>>
    /\ \E msg \in NearestPoses : pose = Some(msg) /\ theta = Some(Yaw(msg.orientation))
    /\ lights = <<>>
    /\ camera_sub = None
    /\ nwp = None
    /\ ctl = None
    /\ i = 0
    /\ log = <<>>
    /\ log_file = [open |-> TRUE, flushed |-> 0]
    /\ pc = "running"
    /\ last = Quiet("pose", <<>>)
    /\ since = NoRows
    /\ thread = NoThread
    /\ trace = <<>>

\* `self.nwp = self.nextWaypoint(self.pose)`; the index found by the scan
\* is kept for inspection
QueryNearest ==
    /\ trace = <<>>
    /\ nwp' = Some(nextWaypoint(Val(pose)))
    /\ trace' = <<[raw |-> nearest3(Val(waypoints), Val(pose).position, 0, NoMin, 0)]>>
    /\ last' = Quiet("nextWaypoint", <<>>)
    /\ UNCHANGED <<config, waypoints, sub_waypoints, traffic_light_to_waypoint_map, pose,
                   theta, lights, camera_sub, ctl, i, log, log_file, pc, since, thread>>

SpecNearest == NearestInit /\ [][QueryNearest]_vars

----------------------------------------------------------------------------
(* distance alone: one call, for any path and any valid pair of indexes    *)

DistanceInit ==
    /\ config = <<>>
    /\ waypoints \in { Some(w) : w \in Tracks }
    /\ sub_waypoints = None
    /\ traffic_light_to_waypoint_map = <<>>
    /\ pose = None
    /\ theta = None
    /\ lights = <<>>
    /\ camera_sub = None
    /\ nwp = None
    /\ ctl = None
    /\ i = 0
    /\ log = <<>>
    /\ log_file = [open |-> TRUE, flushed |-> 0]
    /\ pc = "running"
    /\ last = Quiet("waypoints", <<>>)
    /\ since = NoRows
    /\ thread = NoThread
    /\ trace = <<>>

\* `self.distance(self.waypoints, wp1, wp2)` with 0 <= wp1 <= wp2 < len
QueryDistance ==
    /\ trace = <<>>
    /\ \E wp1 \in 0..(Len(Val(waypoints)) - 1) :
         \E wp2 \in wp1..(Len(Val(waypoints)) - 1) :
            trace' = <<[wp1 |-> wp1, wp2 |-> wp2,
                        dist |-> distance(Val(waypoints), wp1, wp2)]>>
    /\ last' = Quiet("distance", <<>>)
    /\ UNCHANGED <<config, waypoints, sub_waypoints, traffic_light_to_waypoint_map, pose,
                   theta, lights, camera_sub, nwp, ctl, i, log, log_file, pc, since, thread>>

SpecDistance == DistanceInit /\ [][QueryDistance]_vars

----------------------------------------------------------------------------
(* The waypoint callback on its own thread: rospy runs waypoints_cb on the *)
(* receive thread of the topic while loop() runs on the main thread, so a  *)
(* tick or a pose update may run between any two statements of the         *)
(* callback                                                                *)

\* the callback thread is between two deliveries
LoadIdle == [pc |-> "idle", msg |-> <<>>, k |-> 0]

LoadInit ==
    /\ config \in LightConfigs
    /\ waypoints = None
    /\ sub_waypoints = Some("Subscriber")
    /\ traffic_light_to_waypoint_map = <<>>
    /\ pose = None
    /\ theta = None
    /\ lights = <<>>
    /\ camera_sub = None
    /\ nwp = None
    /\ ctl = None
    /\ i = 0
    /\ log = <<>>
    /\ log_file = [open |-> TRUE, flushed |-> 0]
    /\ pc = "running"
    /\ last = Quiet("init", <<>>)
    /\ since = NoRows
    /\ thread = LoadIdle
    /\ trace = <<>>

LoadPose ==
    pc = "running" /\ \E msg \in PoseMsgs : pose_cb(msg) /\ UNCHANGED <<since, thread, trace>>

LoadTick == pc = "running" /\ loop /\ UNCHANGED <<since, thread, trace>>

\* `if self.waypoints is None: self.waypoints = []`
WcbBegin ==
    /\ pc = "running"
    /\ thread.pc = "idle"
    /\ \E msg \in WaypointMsgs :
         /\ IF WaypointsWanted
            THEN waypoints' = Some(<<>>) /\ thread' = [pc |-> "append", msg |-> msg, k |-> 0]
            ELSE UNCHANGED <<waypoints, thread>>
         /\ last' = Quiet("waypoints", msg)
    /\ UNCHANGED <<config, sub_waypoints, traffic_light_to_waypoint_map, pose, theta, lights,
                   camera_sub, nwp, ctl, i, log, log_file, pc, since, trace>>

\* one turn of `for waypoint in msg.waypoints: self.waypoints.append(waypoint)`
WcbAppend ==
    /\ pc = "running"
    /\ thread.pc = "append"
    /\ IF thread.k < Len(thread.msg)
       THEN /\ waypoints' = Some(Append(Val(waypoints), At(thread.msg, thread.k)))
            /\ thread' = [thread EXCEPT !.k = thread.k + 1]
       ELSE /\ thread' = [thread EXCEPT !.pc = "unregister"]
            /\ UNCHANGED waypoints
    /\ last' = Quiet("waypoints", thread.msg)
    /\ UNCHANGED <<config, sub_waypoints, traffic_light_to_waypoint_map, pose, theta, lights,
                   camera_sub, nwp, ctl, i, log, log_file, pc, since, trace>>

\* `self.sub_waypoints.unregister(); self.sub_waypoints = None`
WcbUnregister ==
    /\ pc = "running"
    /\ thread.pc = "unregister"
    /\ sub_waypoints' = None
    /\ thread' = [thread EXCEPT !.pc = "map", !.k = 0]
    /\ last' = Quiet("waypoints", thread.msg)
    /\ UNCHANGED <<config, waypoints, traffic_light_to_waypoint_map, pose, theta, lights,
                   camera_sub, nwp, ctl, i, log, log_file, pc, since, trace>>

\* one turn of the loop over the lights of initializeLightToWaypointMap;
\* the callback returns after the last one
WcbMap ==
    /\ pc = "running"
    /\ thread.pc = "map"
    /\ IF thread.k < Len(config)
       THEN /\ traffic_light_to_waypoint_map' =
                   Append(traffic_light_to_waypoint_map,
                          nearest2(Val(waypoints), At(config, thread.k), 0, NoMin, 0))
            /\ thread' = [thread EXCEPT !.k = thread.k + 1]
       ELSE /\ thread' = [thread EXCEPT !.pc = "idle"]
            /\ UNCHANGED traffic_light_to_waypoint_map
    /\ last' = Quiet("waypoints", thread.msg)
    /\ UNCHANGED <<config, waypoints, sub_waypoints, pose, theta, lights,
                   camera_sub, nwp, ctl, i, log, log_file, pc, since, trace>>

LoadNext == LoadPose \/ LoadTick \/ WcbBegin \/ WcbAppend \/ WcbUnregister \/ WcbMap

SpecLoadRace == LoadInit /\ [][LoadNext]_vars

----------------------------------------------------------------------------
(* The frame callback on its own thread: image_cb runs on the receive      *)
(* thread of the camera topic while loop() runs on the main thread; the    *)
(* two interleave at each read and write of self.camera_sub.  The path and *)
(* one light are loaded.                                                   *)
(*   thread.tick, thread.cb  where loop() and image_cb stand               *)
(*   thread.dist             tl_dist of the iteration under way            *)
(*   thread.registered       the Subscriber object is registered with the  *)
(*                           topic, so frames are delivered to it          *)
(*   thread.unregs           the unregister() calls on that object         *)
(*   thread.twice            some object has had unregister() called twice *)
(*   thread.onNone           loop() has called unregister() on None        *)

FeedIdle ==
    [tick |-> "idle", cb |-> "idle", dist |-> None, registered |-> FALSE, unregs |-> 0,
     twice |-> FALSE, onNone |-> FALSE]

FeedInit ==
    /\ config = << <<95, 0>> >>
    /\ waypoints = Some(TrackA)
    /\ sub_waypoints = None
    /\ traffic_light_to_waypoint_map = lightEntries(<< <<95, 0>> >>, TrackA, 0)
    /\ pose = None
    /\ theta = None
    /\ lights \in LightMsgs
    /\ camera_sub = None
    /\ nwp = None
    /\ ctl = None
    /\ i = 0
    /\ log = <<>>
    /\ log_file = [open |-> TRUE, flushed |-> 0]
    /\ pc = "running"
    /\ last = Quiet("waypoints", TrackA)
    /\ since = NoRows
    /\ thread = FeedIdle
    /\ trace = <<>>

FeedPose ==
    pc = "running" /\ \E msg \in PoseMsgs : pose_cb(msg) /\ UNCHANGED <<since, thread, trace>>

\* the result of one unregister() call on the handle read from
\* self.camera_sub
Unregistered ==
    [thread EXCEPT !.registered = FALSE,
                   !.unregs = thread.unregs + 1,
                   !.twice = thread.twice \/ thread.unregs >= 1]

\* l.177-181: the query, the test of self.camera_sub and, in Idle, the
\* enter branch
TickBegin ==
    /\ pc = "running"
    /\ thread.tick = "idle"
    /\ theta # None
    /\ LET r == dist_to_next_traffic_light
       IN  /\ nwp' = r.nwp
           /\ ctl' = r.ctl
           /\ IF IdleAtTick
              THEN IF EnterCond(r.dist)
                   THEN /\ camera_sub' = Some("Subscriber")
                        /\ thread' = [thread EXCEPT !.registered = TRUE, !.unregs = 0]
                        /\ last' = Event("tick", <<>>, TRUE, FALSE, r.dist, "enable", <<>>)
                   ELSE /\ UNCHANGED <<camera_sub, thread>>
                        /\ last' = Event("tick", <<>>, TRUE, FALSE, r.dist, "none", <<>>)
              ELSE /\ UNCHANGED camera_sub
                   /\ thread' = [thread EXCEPT !.tick = "test", !.dist = r.dist]
                   /\ last' = Event("tick", <<>>, TRUE, FALSE, r.dist, "none", <<>>)
    /\ UNCHANGED <<config, waypoints, sub_waypoints, traffic_light_to_waypoint_map, pose,
                   theta, lights, i, log, log_file, pc, since, trace>>

\* l.196: `tl_dist is not None and tl_dist > 80 and self.camera_sub is not None`
TickTest ==
    /\ pc = "running"
    /\ thread.tick = "test"
    /\ thread' = [thread EXCEPT !.tick = IF ExitCond(thread.dist) /\ camera_sub # None
                                          THEN "unregister" ELSE "idle"]
    /\ last' = Quiet("tick", <<>>)
    /\ UNCHANGED <<prog, since, trace>>

\* l.197: `self.camera_sub.unregister()`; on None it is an AttributeError
\* that leaves loop()
TickUnregister ==
    /\ thread.tick = "unregister"
    /\ pc = "running"
    /\ IF camera_sub = None
       THEN /\ pc' = "crashed"
            /\ thread' = [thread EXCEPT !.onNone = TRUE]
            /\ last' = Event("tick", <<>>, TRUE, TRUE, thread.dist, "none", <<>>)
       ELSE /\ pc' = pc
            /\ thread' = [Unregistered EXCEPT !.tick = "clear"]
            /\ last' = Event("tick", <<>>, TRUE, FALSE, thread.dist, "disable", <<>>)
    /\ UNCHANGED <<config, waypoints, sub_waypoints, traffic_light_to_waypoint_map, pose,
                   theta, lights, camera_sub, nwp, ctl, i, log, log_file, since, trace>>

\* l.198: `self.camera_sub = None`
TickClear ==
    /\ pc = "running"
    /\ thread.tick = "clear"
    /\ camera_sub' = None
    /\ thread' = [thread EXCEPT !.tick = "idle"]
    /\ last' = Quiet("tick", <<>>)
    /\ UNCHANGED <<config, waypoints, sub_waypoints, traffic_light_to_waypoint_map, pose,
                   theta, lights, nwp, ctl, i, log, log_file, pc, since, trace>>

\* a frame is delivered to the registered subscriber; l.221:
\* `if self.camera_sub is not None`
CbCheck ==
    /\ pc = "running"
    /\ thread.cb = "idle"
    /\ thread.registered
    /\ i < MaxFrames
    /\ thread' = [thread EXCEPT !.cb = IF camera_sub # None THEN "unregister" ELSE "rest"]
    /\ last' = Quiet("image", <<>>)
    /\ UNCHANGED <<prog, since, trace>>

\* l.222: `self.camera_sub.unregister()`; on None the AttributeError ends
\* the callback
CbUnregister ==
    /\ pc = "running"
    /\ thread.cb = "unregister"
    /\ IF camera_sub = None
       THEN /\ thread' = [thread EXCEPT !.cb = "idle"]
            /\ last' = Event("image", <<>>, FALSE, TRUE, None, "none", <<>>)
       ELSE /\ thread' = [Unregistered EXCEPT !.cb = "clear"]
            /\ last' = Event("image", <<>>, FALSE, FALSE, None, "disable", <<>>)
    /\ UNCHANGED <<prog, since, trace>>

\* l.223: `self.camera_sub = None`
CbClear ==
    /\ pc = "running"
    /\ thread.cb = "clear"
    /\ camera_sub' = None
    /\ thread' = [thread EXCEPT !.cb = "rest"]
    /\ last' = Quiet("image", <<>>)
    /\ UNCHANGED <<config, waypoints, sub_waypoints, traffic_light_to_waypoint_map, pose,
                   theta, lights, nwp, ctl, i, log, log_file, pc, since, trace>>

\* l.224-272: the row and the preview
CbRest ==
    /\ pc = "running"
    /\ thread.cb = "rest"
    /\ LET rows    == IF Writes THEN <<LogRow>> ELSE <<>>
           queries == Len(lights) > 0 /\ ctl # None
           r       == dist_to_next_traffic_light
       IN  /\ log' = log \o rows
           /\ i' = (IF rows # <<>> THEN NextFrame(i) ELSE i)
           /\ log_file' = (IF rows # <<>> THEN Flush(log_file, Len(log')) ELSE log_file)
           /\ IF queries THEN nwp' = r.nwp /\ ctl' = r.ctl ELSE UNCHANGED <<nwp, ctl>>
           /\ last' = Event("image", <<>>, queries, FALSE,
                            IF queries THEN r.dist ELSE None, "none", rows)
    /\ thread' = [thread EXCEPT !.cb = "idle"]
    /\ UNCHANGED <<config, waypoints, sub_waypoints, traffic_light_to_waypoint_map, pose,
                   theta, lights, camera_sub, pc, since, trace>>

FeedNext ==
    \/ FeedPose
    \/ TickBegin
    \/ TickTest
    \/ TickUnregister
    \/ TickClear
    \/ CbCheck
    \/ CbUnregister
    \/ CbClear
    \/ CbRest

SpecFeedRace == FeedInit /\ [][FeedNext]_vars

----------------------------------------------------------------------------
(* Properties                                                              *)

Present(d) == d # None

\* the row appended by a step
NewRow == log'[Len(log')]

\* C1: no handler sends "enable" (subscribe) to the camera feed while the
\* capture path is Active, and none sends "disable" (unregister) while it
\* is Idle.
C1_NoRedundantSignal ==
    [][ /\ last'.sig = "enable"  => camera_sub = None
        /\ last'.sig = "disable" => camera_sub # None ]_vars

\* a tick has disabled the feed that an earlier tick enabled
C1_Witness == last.op = "tick" /\ last.sig = "disable"

\* C2 as stated: the only step that takes the capture path from Active to
\* Idle is a tick whose distance is present and greater than 80.
C2_OnlyTickLeavesActive ==
    [][ (camera_sub # None /\ camera_sub' = None)
            => (last'.op = "tick" /\ Present(last'.dist) /\ Val(last'.dist) > 80) ]_vars

\* C2 amended: from Active, a tick leaves the path Active unless its
\* distance is present and greater than 80, in which case it goes Idle; a
\* frame arrival always takes it to Idle; no other handler changes it.
C2_ActiveUntilExitOrFrame ==
    [][ camera_sub # None =>
          CASE last'.op = "tick"  -> (camera_sub' = None <=>
                                        (Present(last'.dist) /\ Val(last'.dist) > 80))
            [] last'.op = "image" -> camera_sub' = None
            [] OTHER              -> camera_sub' # None ]_vars

\* the path stayed Active across a tick
C2_Witness == last.op = "tick" /\ last.queried /\ last.sig = "none" /\ camera_sub # None

\* C3: a tick in Idle with a heading known goes to Active with one enable
\* signal iff the distance is present and less than 80; otherwise the path
\* stays Idle and no signal is sent.
C3_IdleTick ==
    [][ (last'.op = "tick" /\ theta # None /\ camera_sub = None) =>
          IF Present(last'.dist) /\ Val(last'.dist) < 80
          THEN camera_sub' # None /\ last'.sig = "enable"
          ELSE camera_sub' = None /\ last'.sig = "none" ]_vars

\* a tick has entered the capture window
C3_Witness == last.op = "tick" /\ last.sig = "enable" /\ camera_sub # None

\* C4: a tick that runs with a heading known and no waypoints delivered
\* gets an absent distance without raising, and the loop goes on; a tick
\* with no heading makes no query.
C4_AbsentBeforeWaypoints ==
    (last.op = "tick" /\ waypoints = None) =>
        /\ ~last.raised
        /\ pc = "running"
        /\ last.dist = None
        /\ (theta = None => ~last.queried)

\* C5 as stated: every frame arrival in Active appends exactly one row,
\* with the current pose and the state of the first traffic light.
C5_EveryFrameLogged ==
    [][ (last'.op = "image" /\ camera_sub # None) =>
          /\ Len(log') = Len(log) + 1
          /\ NewRow.pose = Val(pose)
          /\ NewRow.label = lights[1] ]_vars

\* C5 amended: a frame arrival in Active appends exactly one row, with the
\* current pose and the state of the first traffic light, when the traffic
\* light list is not empty; when it is empty the frame is consumed and no
\* row is written.
C5_FrameLoggedIfLights ==
    [][ (last'.op = "image" /\ camera_sub # None) =>
          IF lights # <<>>
          THEN /\ Len(log') = Len(log) + 1
               /\ SubSeq(log', 1, Len(log)) = log
               /\ NewRow.pose = Val(pose)
               /\ NewRow.label = lights[1]
          ELSE log' = log ]_vars

\* a frame has been logged while two traffic lights were known
C5_Witness == last.op = "image" /\ Len(last.rows) = 1 /\ Len(lights) > 1

\* C6: a tick whose distance is exactly 80 changes nothing: the path stays
\* Idle or stays Active, and no signal is sent.
C6_Boundary ==
    [][ (last'.op = "tick" /\ last'.dist = Some(80))
            => (camera_sub' = camera_sub /\ last'.sig = "none") ]_vars

\* a tick at distance 80 has run in Active
C6_Witness == last.op = "tick" /\ last.dist = Some(80) /\ camera_sub # None

\* the distances, signals and states of scenario 3
Script == <<90, 85, 78, 72, 85, 95>>

ScriptSig == <<"none", "none", "enable", "none", "disable", "none">>

ScriptActive == <<FALSE, FALSE, TRUE, TRUE, FALSE, FALSE>>

\* the first k ticks of the run reported the first k distances of Script
FollowsScript(k) ==
    k <= Len(trace) /\ k <= Len(Script) /\ \A j \in 1..k : trace[j].dist = Some(Script[j])

\* C7: a run from Idle whose ticks report 90, 85, 78, 72, 85, 95, with no
\* frame in between, sends enable at the third tick, disable at the fifth
\* and nothing else, and is Idle, Idle, Active, Active, Idle, Idle.
C7_Scenario ==
    \A k \in 1..Len(trace) :
        FollowsScript(k) => (trace[k].sig = ScriptSig[k] /\ trace[k].active = ScriptActive[k])

\* the whole script has been played
C7_Witness == FollowsScript(Len(Script))

\* C8: once a waypoint delivery has been accepted, no step changes the
\* stored sequence or the light-to-waypoint map.
C8_LoadedOnce ==
    [][ waypoints # None =>
          /\ waypoints' = waypoints
          /\ traffic_light_to_waypoint_map' = traffic_light_to_waypoint_map ]_vars

\* a later delivery with another content has been ignored
C8_Witness == last.op = "waypoints" /\ waypoints # None /\ last.arg # Val(waypoints)

\* C9: a non-empty delivery that arrives when only empty deliveries have
\* arrived before becomes the stored sequence.
C9_EmptyDoesNotConsume ==
    [][ ( /\ last'.op = "waypoints"
          /\ Len(last'.arg) > 0
          /\ (waypoints = None \/ Val(waypoints) = <<>>) )
            => waypoints' = Some(last'.arg) ]_vars

\* C10: after the load the map has one entry per configured light, in
\* config order, each a valid waypoint index and the first index at the
\* least 2D distance from its light.
C10_MapValid ==
    waypoints # None =>
        LET w == Val(waypoints)
            m == traffic_light_to_waypoint_map
        IN  /\ Len(m) = Len(config)
            /\ \A l \in 1..Len(m) :
                 /\ m[l] \in 0..(Len(w) - 1)
                 /\ \A k \in 0..(Len(w) - 1) :
                      ~Less(dsq2(At(w, k), config[l]), dsq2(At(w, m[l]), config[l]))
                 /\ \A k \in 0..(m[l] - 1) :
                      Less(dsq2(At(w, m[l]), config[l]), dsq2(At(w, k), config[l]))

\* the ordinals (from 1) of the entries of map m that lie after index cur
Ahead(m, cur) == { k \in 1..Len(m) : m[k] > cur }

\* C11: getNextLightWaypoint returns the first entry, in stored order, whose
\* waypoint index is greater than the current index and remembers its
\* position; when no entry is greater it returns none and the remembered
\* ordinal stays as it was.
C11_FirstLightAhead ==
    trace # <<>> =>
        LET m   == traffic_light_to_waypoint_map
            cur == Val(nwp)
            r   == trace[1]
        IN  IF Ahead(m, cur) = {}
            THEN r.tlwp = None /\ ctl = r.ctl
            ELSE LET k0 == CHOOSE k \in Ahead(m, cur) : \A j \in Ahead(m, cur) : k <= j
                 IN  /\ r.tlwp = Some(m[k0])
                     /\ Val(r.tlwp) > cur
                     /\ ctl = Some(k0 - 1)

\* a light was found after an entry behind the vehicle had been passed
\* over, although a later entry is ahead too
C11_Witness ==
    /\ trace # <<>>
    /\ trace[1].tlwp # None
    /\ ctl = Some(1)
    /\ Cardinality(Ahead(traffic_light_to_waypoint_map, Val(nwp))) = 2

\* C12: with no light configured, whatever the handlers that run, no query
\* returns a distance, no enable signal is sent, the capture path is Idle
\* and the log has no row.
C12_NoLightsIdle ==
    config = <<>> =>
        /\ last.dist = None
        /\ last.sig # "enable"
        /\ camera_sub = None
        /\ log = <<>>

\* a tick has made its query on a loaded path with no light configured
C12_Witness ==
    /\ config = <<>>
    /\ waypoints # None
    /\ last.op = "tick"
    /\ last.queried
    /\ ~last.raised

\* C13: once the run has ended, by shutdown or by an exception that left
\* loop(), the log file is closed.
C13_ClosedAtExit == pc # "running" => ~log_file.open

\* C14: on a non-empty path nextWaypoint returns a valid index; the index
\* its scan finds is the first one at the least 3D distance from the pose,
\* and the result is that index, or the next one (0 after the last) when
\* the heading correction applies.
C14_NearestAhead ==
    trace # <<>> =>
        LET w   == Val(waypoints)
            loc == Val(pose).position
            n   == trace[1].raw
            res == Val(nwp)
        IN  /\ res \in 0..(Len(w) - 1)
            /\ n \in 0..(Len(w) - 1)
            /\ \A k \in 0..(Len(w) - 1) : ~Less(dsq3(loc, At(w, k)), dsq3(loc, At(w, n)))
            /\ \A k \in 0..(n - 1) : Less(dsq3(loc, At(w, n)), dsq3(loc, At(w, k)))
            /\ res = IF AngleExceeds(Val(theta), At(w, n).y - loc.y, At(w, n).x - loc.x)
                     THEN (IF n + 1 = Len(w) THEN 0 ELSE n + 1)
                     ELSE n

\* the length of the path w from waypoint a to waypoint b, segment by segment
RECURSIVE SegSum(_, _, _)
SegSum(w, a, b) ==
    IF b <= a THEN 0
    ELSE SegSum(w, a, b - 1) + Sqrt(dsq3(At(w, b - 1), At(w, b)))

\* C15: distance(i, j) for valid i <= j is the sum of the lengths of the
\* segments between waypoints i and j; it is 0 for j = i and it is not
\* less than distance(i, j - 1).
C15_PathDistance ==
    trace # <<>> =>
        LET w == Val(waypoints)
            r == trace[1]
        IN  /\ r.dist = SegSum(w, r.wp1, r.wp2)
            /\ r.wp1 = r.wp2 => r.dist = 0
            /\ r.wp2 > r.wp1 => r.dist >= SegSum(w, r.wp1, r.wp2 - 1)

\* a distance over two segments of positive length
C15_Witness ==
    /\ trace # <<>>
    /\ trace[1].wp2 = trace[1].wp1 + 2
    /\ trace[1].dist > SegSum(Val(waypoints), trace[1].wp1, trace[1].wp1 + 1)
    /\ SegSum(Val(waypoints), trace[1].wp1, trace[1].wp1 + 1) > 0

\* C16: the frame counter never decreases and, after every step, equals
\* the number of rows written, so the rows carry different file names;
\* rows are written by the frame callback only, and every row written is
\* flushed when the callback returns.
C16_FrameCounter ==
    [][ /\ i' >= i
        /\ i' = Len(log')
        /\ \A a, b \in 1..Len(log') : a # b => log'[a].image # log'[b].image
        /\ Len(log') > Len(log) => (last'.op = "image" /\ i' = i + 1)
        /\ log_file'.flushed = Len(log') ]_vars

\* two rows have been written
C16_Witness == last.op = "image" /\ Len(log) = 2 /\ Len(last.rows) = 1

\* C17: when a tick makes its distance query while the waypoint callback
\* runs on another thread, the path is either not loaded at all or is the
\* whole delivered sequence with the map built for every light.
C17_NoPartialLoad ==
    (last.op = "tick" /\ last.queried) =>
        \/ waypoints = None
        \/ /\ Val(waypoints) = thread.msg
           /\ Len(traffic_light_to_waypoint_map) = Len(config)

\* C18: with the frame callback on a thread of its own, loop() never calls
\* unregister() on an empty handle and no Subscriber object has
\* unregister() called on it twice.
C18_NoRaceOnHandle == ~thread.onNone /\ ~thread.twice

\* C19: a frame callback leaves the camera subscription dropped, at most
\* one row is written between two consecutive ticks and at most one row
\* between an enable signal and the next one (handlers run to completion).
C19_Throttled ==
    [][/\ (last'.op = "image" => camera_sub' = None)
       /\ since'.tick <= 1
       /\ since'.enable <= 1]_vars

\* a second sample, written after a second enable signal and before the
\* next tick
C19_Witness ==
    /\ last.op = "image"
    /\ Len(log) = 2
    /\ since.tick = 1
    /\ since.enable = 1
    /\ camera_sub = None

\* a pose has been received, the waypoints are loaded and a light ordinal
\* is known
Known == pose # None /\ waypoints # None /\ ctl # None

\* the last signal sent to the feed is the enable signal of a tick whose
\* distance was present and below the threshold
Armed == since.armed # None /\ Val(since.armed) < ENTER_THRESHOLD

\* C20: while the camera feed is subscribed, when a frame callback starts
\* and when a row is written, a pose has been received, the waypoints are
\* loaded and a light ordinal is known; a row is written only after an
\* enable signal of a tick whose distance was present and < 80, with no
\* disable signal between that tick and the frame callback.
C20_CaptureOnlyWhenKnown ==
    [][/\ (camera_sub' # None => Known')
       /\ (last'.op = "image" => camera_sub # None /\ Known /\ Armed)
       /\ (Len(log') > Len(log) => last'.op = "image" /\ Known /\ Armed)]_vars

\* a row has just been written by a frame callback, the light still being
\* within the threshold
C20_Witness ==
    /\ last.op = "image"
    /\ Len(last.rows) = 1
    /\ last.sig = "disable"
    /\ Known
    /\ last.dist # None
    /\ Val(last.dist) < ENTER_THRESHOLD

====
